---- MODULE Spec2Model ----
(***************************************************************************)
(* The LangGraph workflow of the Retail Assistant (app/agents/workflow.py) *)
(* with the agents it calls (query_agent.py, validation_agent.py).         *)
(*                                                                         *)
(* One behaviour is one request: workflow_app.invoke(...) as the Streamlit *)
(* host calls it.  The external collaborators (schema search, generation   *)
(* backend, SQL engine) are nondeterministic: every call may return any    *)
(* value of a small set, or raise an exception with any message of a       *)
(* small set (the empty message included).                                 *)
(*                                                                         *)
(* Texts (Python str) are sequences of tokens; the empty sequence is "".   *)
(* Python's None is the one-token text None.                               *)
(***************************************************************************)
EXTENDS Integers, Sequences, FiniteSets, TLC

VARIABLES
    intent,            \* WorkflowState["intent"]
    use_kb,            \* WorkflowState["use_kb"]
    table_schemas,     \* WorkflowState["table_schemas"]: the dict's keys, in insertion order
    relevant_tables,   \* WorkflowState["relevant_tables"]
    sql_query,         \* WorkflowState["sql_query"]
    query_results,     \* WorkflowState["query_results"]
    final_answer,      \* WorkflowState["final_answer"]
    error,             \* WorkflowState["error"]
    validation_error,  \* WorkflowState["validation_error"]
    retry_count,       \* WorkflowState["retry_count"]
    pc,                \* the node the graph runs next
    attempt,           \* generate_and_execute_query: loop variable `attempt`
    last_error,        \* generate_and_execute_query: local `last_error`
    error_context,     \* generate_and_execute_query: parameter `error_context`
    candidates,        \* retrieve_tables_node: local `candidates` of the last search
    validation,        \* validate_node: local `validation` of the last validate call
    calls,             \* history: how often each collaborator was invoked
    invoked,           \* history: the collaborators the last step invoked
    raised,            \* history: str(e) of the last Query Cycle that raised, None if none did
    matched,           \* history: retrieve_tables_node: `final_selection` before the fallback
    trace,             \* history: the calls of the last Query Cycle and of the validation after it
    script,            \* per session: the call its Streamlit script run is inside
    inflight,          \* SQLService.conn: the statements being executed
    tables,            \* SQLService.conn: the temporary tables that exist
    registry,          \* SessionService.sessions
    session_files,     \* SessionService.session_files
    disk,              \* the files that exist under settings.temp_data_path
    cleanup,           \* cleanup_session: the call in progress, its loops and what it tried
    collection         \* CatalogService.collection: the ids (table names) in the store

vars == <<intent, use_kb, table_schemas, relevant_tables, sql_query, query_results,
          final_answer, error, validation_error, retry_count, pc, attempt,
          last_error, error_context, candidates, validation, calls, invoked,
          raised, matched, trace, script, inflight, tables, registry,
          session_files, disk, cleanup, collection>>

\* the services shared by the sessions of the process
host    == <<script, inflight, tables, registry, session_files, disk, cleanup, collection>>
request == <<intent, use_kb>>
wstate  == <<table_schemas, relevant_tables, sql_query, query_results, final_answer,
             error, validation_error, retry_count>>
qlocals == <<attempt, last_error, error_context>>

(***************************************************************************)
(* Bounds of the model and constants of the program.                       *)
(***************************************************************************)
MaxCandidates == 4      \* longest search result explored (the code asks for top_k = 10)
MaxCount == 4           \* the call counters saturate here: MaxCount means "or more"
MaxGenerated == 10      \* the count of SQL-generation calls of a request saturates here

MaxAttempts == 3        \* for attempt in range(3)
MaxValidationRetries == 3   \* retry_count < 3
FallbackTopN == 3       \* candidates[:3]

Min(a, b) == IF a < b THEN a ELSE b

(***************************************************************************)
(* Texts.                                                                  *)
(***************************************************************************)
None == <<"<None>">>
EmptyText == <<>>

\* Python truthiness of an Optional[str]
Truthy(t) == t # None /\ t # EmptyText

\* str(e) of the exceptions the collaborators raise
ErrTexts == { EmptyText, <<"error A">>, <<"error B">> }

NoRelevantTables == <<"No relevant tables found in knowledge base">>
NoTablesAvailable == <<"No tables available for querying">>
ValidationErrorReason == <<"Validation Error">>

(***************************************************************************)
(* Tables.  The tables of the knowledge base are named by their rank in    *)
(* the store's similarity order for the request's question.                *)
(***************************************************************************)
KBTables == 1 .. MaxCandidates
ForeignTable == MaxCandidates + 1     \* a name the backend may return that is no candidate
TempTable == 0                        \* f"temp_{safe_session_id}_upload"

Prefix(n) == [i \in 1 .. n |-> i]
SearchResults == { Prefix(n) : n \in 0 .. MaxCandidates }

RECURSIVE SelectSeq2(_, _)
\* [c for c in s if c in keep]
SelectSeq2(s, keep) ==
    IF s = <<>> THEN <<>>
    ELSE IF Head(s) \in keep THEN <<Head(s)>> \o SelectSeq2(Tail(s), keep)
         ELSE SelectSeq2(Tail(s), keep)

(***************************************************************************)
(* Query results: sequences of rows.                                       *)
(***************************************************************************)
\* more rows than synthesize_answer passes on (results[:10], results[:5])
ManyRows == <<"row1", "row2", "row3", "row4", "row5", "row6",
              "row7", "row8", "row9", "row10", "row11">>

ResultSets == { <<>>, <<"row1">>, ManyRows }

NoAnswer == [src |-> "none", sql |-> EmptyText, rows |-> <<>>]

\* the trace at the entry of a Query Cycle: no attempt made, nothing validated
NewTrace == [context |-> None, tried |-> <<>>, validated |-> <<>>]

\* the table selection has not returned (a table name is never negative)
NotMatched == <<0 - 1>>

(***************************************************************************)
(* History.  calls counts the invocations made in the request:             *)
(*   search     catalog_service.search_relevant_tables                     *)
(*   select     the backend call of the table selection                    *)
(*   qc         query_agent.generate_and_execute_query (the Query Cycle)   *)
(*   gen, exec  backend calls and SQL executions of the last Query Cycle   *)
(*   val        validation_agent.validate                                  *)
(*   synth      query_agent.synthesize_answer, synth_llm its backend call  *)
(*   sum        summarization_agent.summarize                              *)
(* gen and exec start again at 0 with every Query Cycle; the others        *)
(* saturate at MaxCount.                                                   *)
(***************************************************************************)
Counters == { "search", "select", "qc", "gen", "exec", "val", "synth", "synth_llm", "sum" }

Bump(c, names) == [n \in Counters |-> IF n \in names THEN Min(c[n] + 1, MaxCount) ELSE c[n]]

\* the step invokes the collaborators `names`
Invoke(names) == calls' = Bump(calls, names) /\ invoked' = names

\* the step invokes no collaborator
InvokeNone == calls' = calls /\ invoked' = {}

NSessions == 3

\* the browser sessions, each with its own st.session_state.session_id
Sessions == 1 .. NSessions

Hex == <<"a", "b", "c", "d", "e", "f">>

\* str(uuid.uuid4()) of session s: hexadecimal digits in groups joined by hyphens, a text
\* written as the sequence of its characters; the identifiers of two sessions differ
uuid4(s) == <<Hex[s], Hex[s], "-", "4", Hex[s], "-", Hex[s]>>

\* str.replace on a text of characters
replace(text, old, new) == [i \in 1 .. Len(text) |-> IF text[i] = old THEN new ELSE text[i]]

\* the host's name of the uploaded table, built from the identifier as it is
temp_table_raw_id(session_id) == <<"temp", "_">> \o session_id \o <<"_", "upload">>

\* the host: safe_session_id = session_id.replace("-", "_"); f"temp_{safe_session_id}_upload"
temp_table(session_id) == <<"temp", "_">> \o replace(session_id, "-", "_") \o <<"_", "upload">>

\* load_csv_to_db: the name of the table it creates
created_table(table_name) == replace(table_name, "-", "_")

\* retrieve_tables_node in direct mode: the name it builds, as extract_metadata returns it
\* in metadata.table_name
resolved_table(session_id) ==
    LET safe_session_id == replace(session_id, "-", "_")
        table_name      == <<"temp", "_">> \o safe_session_id \o <<"_", "upload">>
    IN  replace(table_name, "-", "_")

\* no call of cleanup_session is in progress
NoCleanup == [sid |-> 0, phase |-> "idle", left |-> {}, given |-> {}, tried |-> {}, failed |-> {}]

HostInit ==
    /\ script = [s \in Sessions |-> "idle"]
    /\ inflight = {}
    /\ tables = {}
    /\ registry = [s \in Sessions |-> {}]
    /\ session_files = [s \in Sessions |-> {}]
    /\ disk = {}
    /\ cleanup = NoCleanup
    /\ collection = {}

(***************************************************************************)
(* The requests the host makes (streamlit_app.py).                         *)
(***************************************************************************)
Requests == { <<"summarize", FALSE>>, <<"query", FALSE>>, <<"query", TRUE>> }

\* the state workflow_app.invoke is called with
WorkflowInit ==
    /\ \E r \in Requests : intent = r[1] /\ use_kb = r[2]
    /\ table_schemas = <<>>
    /\ relevant_tables = <<>>
    /\ sql_query = EmptyText
    /\ query_results = <<>>
    /\ final_answer = NoAnswer
    /\ error = EmptyText
    /\ validation_error = None
    /\ retry_count = 0
    /\ pc = "START"
    /\ attempt = 0
    /\ last_error = None
    /\ error_context = None
    /\ candidates = <<>>
    /\ validation = [exc |-> FALSE, valid |-> TRUE, reason |-> EmptyText]
    /\ calls = [n \in Counters |-> 0]
    /\ invoked = {}
    /\ raised = None
    /\ matched = NotMatched
    /\ trace = NewTrace

Init == WorkflowInit /\ HostInit

(***************************************************************************)
(* route_intent: the conditional entry point.                              *)
(***************************************************************************)
\* a router that misses the summarize label
route_intent_never_summarize == "retrieve_tables"

route_intent == IF intent = "summarize" THEN "summarize" ELSE "retrieve_tables"

Route ==
    /\ pc = "START"
    /\ pc' = route_intent
    /\ InvokeNone
    /\ UNCHANGED <<host, request, wstate, qlocals, candidates, validation, raised, matched, trace>>

(***************************************************************************)
(* summarize_node, then the edge summarize -> END.                         *)
(***************************************************************************)
summarize_node ==
    /\ pc = "summarize"
    /\ Invoke({"sum"})
    /\ \/ /\ final_answer' = [src |-> "summary", sql |-> EmptyText, rows |-> <<>>]
          /\ UNCHANGED error
       \/ /\ \E e \in ErrTexts : error' = e
          /\ UNCHANGED final_answer
    /\ pc' = "END"
    /\ UNCHANGED <<host, request, table_schemas, relevant_tables, sql_query, query_results,
                   validation_error, retry_count, qlocals, candidates, validation, raised,
                   matched, trace>>

(***************************************************************************)
(* retrieve_tables_node, then the edge retrieve_tables -> query.           *)
(***************************************************************************)
BlankField == MaxCandidates + 2       \* a field of the response that is empty after strip()

\* response.text.split(","): the set of fields of the backend's response
SelectionResponses == SUBSET (KBTables \cup {ForeignTable, BlankField})

\* [n.strip() for n in response.text.split(",") if n.strip()]
selected_names(response) == response \ {BlankField}

\* candidates[:3]
FirstN(s, n) == SubSeq(s, 1, Min(n, Len(s)))

\* the filter without the fallback
final_selection_no_fallback(cands, names) == SelectSeq2(cands, names)

\* the fallback without the slice [:3]
final_selection_all_candidates(cands, names) ==
    LET filtered == SelectSeq2(cands, names)
    IN  IF filtered = <<>> /\ cands # <<>> THEN cands ELSE filtered

final_selection(cands, names) ==
    LET filtered == SelectSeq2(cands, names)
    IN  IF filtered = <<>> /\ cands # <<>> THEN FirstN(cands, FallbackTopN) ELSE filtered

\* the branch use_kb = True without the early return on an empty search result
retrieve_from_kb_no_early_return ==
    /\ use_kb
    /\ \E found \in SearchResults :
          /\ candidates' = found
          /\ Invoke({"search", "select"})
          /\ \/ \E response \in SelectionResponses :
                   /\ table_schemas' = final_selection(found, selected_names(response))
                   /\ relevant_tables' = table_schemas'
                   /\ matched' = SelectSeq2(found, selected_names(response))
                   /\ UNCHANGED error
             \/ \E e \in ErrTexts :
                   /\ error' = e
                   /\ UNCHANGED <<table_schemas, relevant_tables, matched>>

\* the branch use_kb = True
retrieve_from_kb ==
    /\ use_kb
    /\ \E found \in SearchResults :
          /\ candidates' = found
          /\ IF found = <<>>
             THEN /\ error' = NoRelevantTables
                  /\ Invoke({"search"})
                  /\ UNCHANGED <<table_schemas, relevant_tables, matched>>
             ELSE /\ Invoke({"search", "select"})
                  /\ \/ \E response \in SelectionResponses :
                           /\ table_schemas' = final_selection(found, selected_names(response))
                           /\ relevant_tables' = table_schemas'
                           /\ matched' = SelectSeq2(found, selected_names(response))
                           /\ UNCHANGED error
                     \/ \E e \in ErrTexts :
                           /\ error' = e
                           /\ UNCHANGED <<table_schemas, relevant_tables, matched>>

\* what the backend does in the selection call: it answers or it raises
SelectionBackend ==
    { [kind |-> "text", fields |-> r, text |-> EmptyText] : r \in SelectionResponses }
    \cup { [kind |-> "raised", fields |-> {}, text |-> e] : e \in ErrTexts }

\* the branch use_kb = True, recording in trace what the selection call returned
retrieve_from_kb_traced ==
    /\ use_kb
    /\ \E found \in SearchResults :
          /\ candidates' = found
          /\ IF found = <<>>
             THEN /\ error' = NoRelevantTables
                  /\ Invoke({"search"})
                  /\ UNCHANGED <<table_schemas, relevant_tables, matched, trace>>
             ELSE /\ Invoke({"search", "select"})
                  /\ \E b \in SelectionBackend :
                        /\ trace' = [kind |-> b.kind, selected |-> selected_names(b.fields)]
                        /\ IF b.kind = "text"
                           THEN /\ table_schemas' = final_selection(found, selected_names(b.fields))
                                /\ relevant_tables' = table_schemas'
                                /\ matched' = SelectSeq2(found, selected_names(b.fields))
                                /\ UNCHANGED error
                           ELSE /\ error' = b.text
                                /\ UNCHANGED <<table_schemas, relevant_tables, matched>>

\* retrieve_tables_node in catalog mode, then the edge retrieve_tables -> query
retrieve_tables_node_traced ==
    /\ pc = "retrieve_tables"
    /\ retrieve_from_kb_traced
    /\ pc' = "query"
    /\ UNCHANGED <<host, request, sql_query, query_results, final_answer, validation_error,
                   retry_count, qlocals, validation, raised>>

\* the branch use_kb = False
retrieve_from_upload ==
    /\ ~use_kb
    /\ InvokeNone
    /\ UNCHANGED <<candidates, matched>>
    /\ \/ /\ table_schemas' = <<TempTable>>
          /\ relevant_tables' = <<TempTable>>
          /\ UNCHANGED error
       \/ \E e \in ErrTexts :
             /\ error' = e
             /\ UNCHANGED <<table_schemas, relevant_tables>>

retrieve_tables_node ==
    /\ pc = "retrieve_tables"
    /\ \/ retrieve_from_kb
       \/ retrieve_from_upload
    /\ pc' = "query"
    /\ UNCHANGED <<host, request, sql_query, query_results, final_answer, validation_error,
                   retry_count, qlocals, validation, raised, trace>>

(***************************************************************************)
(* QueryAgent._generate_sql: the backend's response, cleaned of code       *)
(* fences.  A response is the sequence of its lines (already stripped);   *)
(* the three backticks of a fence are written ~~~.                         *)
(***************************************************************************)
GenResponses == { <<"SELECT 1">>, <<"SELECT 2">>, <<"~~~sql", "SELECT 1", "~~~">> }

\* line.strip().startswith("~~~")
StartsWithFence(line) == line \in { "~~~", "~~~sql" }

generate_sql_clean(lines) ==
    IF lines # <<>> /\ StartsWithFence(lines[1])
    THEN LET l1 == Tail(lines)
             l2 == IF l1 # <<>> /\ l1[Len(l1)] = "~~~" THEN SubSeq(l1, 1, Len(l1) - 1) ELSE l1
         IN  l2
    ELSE lines

(***************************************************************************)
(* query_node up to the call of generate_and_execute_query.                *)
(***************************************************************************)
query_node_entry ==
    /\ pc = "query"
    /\ IF table_schemas = <<>>
       THEN /\ error' = NoTablesAvailable
            /\ pc' = "validate"
            /\ InvokeNone
            /\ UNCHANGED qlocals
       ELSE /\ error_context' = validation_error
            /\ last_error' = None
            /\ attempt' = 0
            /\ calls' = [Bump(calls, {"qc"}) EXCEPT !["gen"] = 0, !["exec"] = 0]
            /\ invoked' = {"qc"}
            /\ pc' = "query_attempt"
            /\ UNCHANGED error
    /\ UNCHANGED <<host, request, table_schemas, relevant_tables, sql_query, query_results,
                   final_answer, validation_error, retry_count, candidates, validation,
                   raised, matched>>

query_node == query_node_entry /\ UNCHANGED trace

\* query_node, starting the trace of the Query Cycle it calls
query_node_traced ==
    /\ query_node_entry
    /\ trace' = IF table_schemas = <<>> THEN trace ELSE NewTrace

(***************************************************************************)
(* One iteration of the loop of generate_and_execute_query.  The iteration *)
(* that returns or re-raises also runs the rest of query_node and the edge *)
(* query -> validate.                                                      *)
(***************************************************************************)
\* current_error = last_error if last_error else error_context
current_error == IF Truthy(last_error) THEN last_error ELSE error_context

\* except Exception as e, in the loop and, on the last attempt, in query_node
attempt_failed(e) ==
    IF attempt = MaxAttempts - 1
    THEN /\ error' = e
         /\ raised' = e
         /\ pc' = "validate"
         /\ attempt' = 0
         /\ last_error' = None
         /\ error_context' = None
    ELSE /\ last_error' = e
         /\ attempt' = attempt + 1
         /\ UNCHANGED <<error, pc, error_context, raised>>

\* query_node storing the results without the SQL they came from
attempt_succeeded_rows_only(sql, rows) ==
    /\ query_results' = rows
    /\ pc' = "validate"
    /\ attempt' = 0
    /\ last_error' = None
    /\ error_context' = None
    /\ UNCHANGED <<sql_query, error, raised>>

\* return sql_query, results
attempt_succeeded(sql, rows) ==
    /\ sql_query' = sql
    /\ query_results' = rows
    /\ pc' = "validate"
    /\ attempt' = 0
    /\ last_error' = None
    /\ error_context' = None
    /\ UNCHANGED <<error, raised>>

\* what the backend and the engine do in one attempt
AttemptOutcomes ==
    { [kind |-> "backend raised", response |-> <<>>, text |-> e, rows |-> <<>>] :
          e \in ErrTexts }
    \cup { [kind |-> "engine raised", response |-> r, text |-> e, rows |-> <<>>] :
               r \in GenResponses, e \in ErrTexts }
    \cup { [kind |-> "ok", response |-> r, text |-> EmptyText, rows |-> rows] :
               r \in GenResponses, rows \in ResultSets }

attempt_step(o) ==
    /\ pc = "query_attempt"
    /\ Invoke(IF o.kind = "backend raised" THEN {"gen"} ELSE {"gen", "exec"})
    /\ IF o.kind = "ok"
       THEN attempt_succeeded(generate_sql_clean(o.response), o.rows)
       ELSE /\ attempt_failed(o.text)
            /\ UNCHANGED <<sql_query, query_results>>
    /\ UNCHANGED <<host, request, table_schemas, relevant_tables, final_answer,
                   validation_error, retry_count, candidates, validation, matched>>

query_attempt == \E o \in AttemptOutcomes : attempt_step(o) /\ UNCHANGED trace

\* if error_context: the text _generate_sql appends to the prompt, None when it appends none
prompt_context(context) == IF Truthy(context) THEN context ELSE None

\* what came of one attempt: the SQL it generated and the rows it returned
attempt_record(o) ==
    [kind |-> o.kind,
     sql |-> IF o.kind = "backend raised" THEN EmptyText ELSE generate_sql_clean(o.response),
     rows |-> o.rows]

\* query_attempt, recording the attempt
query_attempt_traced ==
    \E o \in AttemptOutcomes :
        /\ attempt_step(o)
        /\ trace' = [trace EXCEPT !.context = prompt_context(current_error),
                                  !.tried = Append(@, attempt_record(o))]

(***************************************************************************)
(* ValidationAgent.validate.  The backend's response is a sequence of      *)
(* characters.                                                             *)
(***************************************************************************)
ValidatorResponses ==
    { <<"V", "A", "L", "I", "D">>,
      <<"v", "a", "l", "i", "d", "\n">>,
      <<"V", "A", "L", "I", "D", " ", "-", " ", "a">>,
      <<"I", "N", "V", "A", "L", "I", "D", " ", "-", " ", "a", "-", "b">>,
      <<"I", "N", "V", "A", "L", "I", "D", "-">>,
      <<"b", "\n">>,
      <<>> }

IsSpace(c) == c \in { " ", "\n" }

RECURSIVE LStrip(_)
LStrip(s) == IF s # <<>> /\ IsSpace(Head(s)) THEN LStrip(Tail(s)) ELSE s

RECURSIVE RStrip(_)
RStrip(s) == IF s # <<>> /\ IsSpace(s[Len(s)]) THEN RStrip(SubSeq(s, 1, Len(s) - 1)) ELSE s

\* str.strip()
Strip(s) == RStrip(LStrip(s))

UpperChar(c) ==
    CASE c = "v" -> "V" [] c = "a" -> "A" [] c = "l" -> "L" [] c = "i" -> "I"
      [] c = "d" -> "D" [] c = "b" -> "B" [] c = "n" -> "N" [] OTHER -> c

\* str.upper()
Upper(s) == [i \in 1 .. Len(s) |-> UpperChar(s[i])]

\* str.startswith(prefix)
StartsWith(s, prefix) == Len(s) >= Len(prefix) /\ SubSeq(s, 1, Len(prefix)) = prefix

\* the index of the first c in s, 0 when there is none
FirstIndex(s, c) ==
    IF \E i \in 1 .. Len(s) : s[i] = c
    THEN CHOOSE i \in 1 .. Len(s) : s[i] = c /\ \A j \in 1 .. i - 1 : s[j] # c
    ELSE 0

\* the try block of validate with the verdict tested by equality
parse_validation_exact_match(response) ==
    LET validation_text == Strip(response)
        is_valid == Upper(validation_text) = <<"V", "A", "L", "I", "D">>
        dash == FirstIndex(validation_text, "-")
        reason == IF is_valid THEN EmptyText
                  ELSE IF dash > 0
                       THEN Strip(SubSeq(validation_text, dash + 1, Len(validation_text)))
                       ELSE validation_text
    IN  [exc |-> FALSE, valid |-> is_valid, reason |-> reason]

\* the try block of validate, from the response on
parse_validation(response) ==
    LET validation_text == Strip(response)
        is_valid == StartsWith(Upper(validation_text), <<"V", "A", "L", "I", "D">>)
        dash == FirstIndex(validation_text, "-")
        reason == IF is_valid THEN EmptyText
                  ELSE IF dash > 0
                       THEN Strip(SubSeq(validation_text, dash + 1, Len(validation_text)))
                       ELSE validation_text
    IN  [exc |-> FALSE, valid |-> is_valid, reason |-> reason]

\* an except block that reports the results as invalid
validation_failed_closed == [exc |-> FALSE, valid |-> FALSE, reason |-> ValidationErrorReason]

\* the except block of validate
validation_failed == [exc |-> FALSE, valid |-> TRUE, reason |-> ValidationErrorReason]

\* what the backend does in one call of validate: it answers or it raises
ValidatorBackend ==
    { [kind |-> "text", text |-> r] : r \in ValidatorResponses }
    \cup { [kind |-> "raised", text |-> EmptyText] }

\* validate with an except block that raises again
validate_reraising(b) ==
    IF b.kind = "raised"
    THEN [exc |-> TRUE, valid |-> FALSE, reason |-> EmptyText]
    ELSE parse_validation(b.text)

\* validate: exc tells whether the call raised instead of returning
validate(b) ==
    IF b.kind = "raised" THEN validation_failed ELSE parse_validation(b.text)

(***************************************************************************)
(* check_validation: the conditional edge after validate.                  *)
(***************************************************************************)
\* the budget test off by one: retry_count <= 3
check_validation_inclusive(verr, retries) ==
    IF Truthy(verr) /\ retries <= MaxValidationRetries THEN "retry" ELSE "end"

check_validation(verr, retries) ==
    IF Truthy(verr) /\ retries < MaxValidationRetries THEN "retry" ELSE "end"

\* a conditional edge that looks at the budget alone
edge_after_validate_budget_only(verr, retries) ==
    IF retries < MaxValidationRetries THEN "query" ELSE "synthesize"

edge_after_validate(verr, retries) ==
    IF check_validation(verr, retries) = "retry" THEN "query" ELSE "synthesize"

(***************************************************************************)
(* validate_node, then the conditional edge.                               *)
(***************************************************************************)
\* validate_node counting every outcome of the Validator, valid or not
validate_step_counting_all(b) ==
    /\ pc = "validate"
    /\ IF Truthy(error)
       THEN /\ InvokeNone
            /\ UNCHANGED <<validation_error, retry_count, validation>>
       ELSE /\ Invoke({"val"})
            /\ validation' = validate(b)
            /\ retry_count' = Min(retry_count + 1, MaxValidationRetries)
            /\ IF validation'.exc \/ validation'.valid
               THEN validation_error' = None
               ELSE validation_error' = validation'.reason
    /\ pc' = edge_after_validate(validation_error', retry_count')
    /\ UNCHANGED <<host, request, table_schemas, relevant_tables, sql_query, query_results,
                   final_answer, error, qlocals, candidates, raised, matched>>

\* validate_node leaving validation_error as it is when the results are valid
validate_step_keeping_feedback(b) ==
    /\ pc = "validate"
    /\ IF Truthy(error)
       THEN /\ InvokeNone
            /\ UNCHANGED <<validation_error, retry_count, validation>>
       ELSE /\ Invoke({"val"})
            /\ validation' = validate(b)
            /\ IF validation'.exc \/ validation'.valid
               THEN UNCHANGED <<validation_error, retry_count>>
               ELSE /\ validation_error' = validation'.reason
                    /\ retry_count' = retry_count + 1
    /\ pc' = edge_after_validate(validation_error', retry_count')
    /\ UNCHANGED <<host, request, table_schemas, relevant_tables, sql_query, query_results,
                   final_answer, error, qlocals, candidates, raised, matched>>

validate_step(b) ==
    /\ pc = "validate"
    /\ IF Truthy(error)
       THEN /\ InvokeNone
            /\ UNCHANGED <<validation_error, retry_count, validation>>
       ELSE /\ Invoke({"val"})
            /\ validation' = validate(b)
            /\ IF validation'.exc \/ validation'.valid
               THEN /\ validation_error' = None
                    /\ UNCHANGED retry_count
               ELSE /\ validation_error' = validation'.reason
                    /\ retry_count' = retry_count + 1
    /\ pc' = edge_after_validate(validation_error', retry_count')
    /\ UNCHANGED <<host, request, table_schemas, relevant_tables, sql_query, query_results,
                   final_answer, error, qlocals, candidates, raised, matched>>

validate_node == \E b \in ValidatorBackend : validate_step(b) /\ UNCHANGED trace

\* validate_node, recording what the Validator was called with
validate_node_traced ==
    \E b \in ValidatorBackend :
        /\ validate_step(b)
        /\ trace' = IF Truthy(error)
                    THEN trace
                    ELSE [trace EXCEPT !.validated =
                              <<[sql |-> sql_query, rows |-> query_results,
                                 backend |-> b.kind, text |-> b.text]>>]

(***************************************************************************)
(* QueryAgent.synthesize_answer and synthesize_node, then the edge         *)
(* synthesize -> END.                                                      *)
(***************************************************************************)
SynthesisRows == 10     \* results[:10]
FallbackRows == 5       \* results[:5]

NoResultsAnswer == [src |-> "no results", sql |-> EmptyText, rows |-> <<>>]
BackendAnswer(sql, rows) == [src |-> "backend", sql |-> sql, rows |-> FirstN(rows, SynthesisRows)]
\* the fallback text built from all the rows
FallbackAnswer_all_rows(rows) == [src |-> "fallback", sql |-> EmptyText, rows |-> rows]

FallbackAnswer(rows) == [src |-> "fallback", sql |-> EmptyText, rows |-> FirstN(rows, FallbackRows)]

\* synthesize_answer with the test of the empty result inverted
synthesize_node_inverted_test ==
    /\ pc = "synthesize"
    /\ IF Truthy(error)
       THEN /\ InvokeNone
            /\ UNCHANGED final_answer
       ELSE IF query_results # <<>>
            THEN /\ final_answer' = NoResultsAnswer
                 /\ Invoke({"synth"})
            ELSE /\ Invoke({"synth", "synth_llm"})
                 /\ \/ final_answer' = BackendAnswer(sql_query, query_results)
                    \/ final_answer' = FallbackAnswer(query_results)
    /\ pc' = "END"
    /\ UNCHANGED <<host, request, table_schemas, relevant_tables, sql_query, query_results,
                   error, validation_error, retry_count, qlocals, candidates, validation,
                   raised, matched, trace>>

\* synthesize_answer without the test of the empty result
synthesize_node_always_backend ==
    /\ pc = "synthesize"
    /\ IF Truthy(error)
       THEN /\ InvokeNone
            /\ UNCHANGED final_answer
       ELSE /\ Invoke({"synth", "synth_llm"})
            /\ \/ final_answer' = BackendAnswer(sql_query, query_results)
               \/ final_answer' = FallbackAnswer(query_results)
    /\ pc' = "END"
    /\ UNCHANGED <<host, request, table_schemas, relevant_tables, sql_query, query_results,
                   error, validation_error, retry_count, qlocals, candidates, validation,
                   raised, matched, trace>>

synthesize_node ==
    /\ pc = "synthesize"
    /\ IF Truthy(error)
       THEN /\ InvokeNone
            /\ UNCHANGED final_answer
       ELSE IF query_results = <<>>
            THEN /\ final_answer' = NoResultsAnswer
                 /\ Invoke({"synth"})
            ELSE /\ Invoke({"synth", "synth_llm"})
                 /\ \/ final_answer' = BackendAnswer(sql_query, query_results)
                    \/ final_answer' = FallbackAnswer(query_results)
    /\ pc' = "END"
    /\ UNCHANGED <<host, request, table_schemas, relevant_tables, sql_query, query_results,
                   error, validation_error, retry_count, qlocals, candidates, validation,
                   raised, matched, trace>>

Next ==
    \/ Route
    \/ summarize_node
    \/ retrieve_tables_node
    \/ query_node
    \/ query_attempt
    \/ validate_node
    \/ synthesize_node

Spec == Init /\ [][Next]_vars

\* LangGraph runs the next node as long as there is one
FairSpec == Spec /\ WF_vars(Next)

\* the same program with the history of the Query Cycle recorded in trace
\* for a question on an uploaded file (streamlit_app.py:179): nothing after
\* retrieve_tables_node reads which tables were resolved, only that some were
InitTraced == Init /\ intent = "query" /\ ~use_kb

NextTraced ==
    \/ Route
    \/ retrieve_tables_node
    \/ query_node_traced
    \/ query_attempt_traced
    \/ validate_node_traced
    \/ synthesize_node

SpecTraced == InitTraced /\ [][NextTraced]_vars

\* the number of SQL-generation calls the request has made
generated == IF calls["qc"] = 0 THEN 0 ELSE trace.generated

\* query_node, keeping the count of generation calls
query_node_counted ==
    /\ query_node_entry
    /\ trace' = [generated |-> generated]

\* query_attempt, counting its call of _generate_sql
query_attempt_counted ==
    \E o \in AttemptOutcomes :
        /\ attempt_step(o)
        /\ trace' = [generated |-> Min(generated + 1, MaxGenerated)]

\* the same program with the SQL-generation calls of the whole request counted in trace
NextCounted ==
    \/ Route
    \/ retrieve_tables_node
    \/ query_node_counted
    \/ query_attempt_counted
    \/ validate_node
    \/ synthesize_node

SpecCounted == InitTraced /\ [][NextCounted]_vars


(***************************************************************************)
(* The Table Resolver of a catalog-mode request, recording the selection   *)
(* the backend returned.                                                   *)
(***************************************************************************)
InitResolver == Init /\ intent = "query" /\ use_kb

NextResolver ==
    \/ Route
    \/ retrieve_tables_node_traced

SpecResolver == InitResolver /\ [][NextResolver]_vars

(***************************************************************************)
(* The sessions of one process.  Streamlit runs the script of a session in *)
(* one thread, one run at a time; the threads of different sessions share  *)
(* sql_service and session_service.  A call on the shared connection takes *)
(* two steps, its start and its return.                                    *)
(***************************************************************************)
workflow_vars == <<intent, use_kb, table_schemas, relevant_tables, sql_query, query_results,
                   final_answer, error, validation_error, retry_count, pc, attempt,
                   last_error, error_context, candidates, validation, calls, invoked,
                   raised, matched, trace>>

cleanup_vars == <<session_files, disk, cleanup>>

catalog_vars == <<collection>>

Statement(op, s) == [op |-> op, table |-> created_table(temp_table(uuid4(s))), by |-> s]

\* "Submit Question": load_csv_to_db(..., is_temp=True) starts
SubmitQuestion(s) ==
    /\ script[s] = "idle"
    /\ script' = [script EXCEPT ![s] = "load_csv_to_db"]
    /\ inflight' = inflight \cup { Statement("create", s) }
    /\ UNCHANGED <<tables, registry, workflow_vars, catalog_vars, cleanup_vars>>

\* CREATE TEMP TABLE returns or raises; then register_temp_table
load_csv_to_db(s) ==
    /\ script[s] = "load_csv_to_db"
    /\ inflight' = inflight \ { Statement("create", s) }
    /\ \/ /\ created_table(temp_table(uuid4(s))) \notin tables
          /\ tables' = tables \cup { created_table(temp_table(uuid4(s))) }
          /\ registry' = [registry EXCEPT ![s] = @ \cup { temp_table(uuid4(s)) }]
          /\ script' = [script EXCEPT ![s] = "invoke"]
       \/ /\ script' = [script EXCEPT ![s] = "idle"]
          /\ UNCHANGED <<tables, registry>>
    /\ UNCHANGED <<workflow_vars, catalog_vars, cleanup_vars>>

\* workflow_app.invoke reaches sql_service.execute_query
execute_query_starts(s) ==
    /\ script[s] = "invoke"
    /\ script' = [script EXCEPT ![s] = "execute_query"]
    /\ inflight' = inflight \cup { Statement("execute", s) }
    /\ UNCHANGED <<tables, registry, workflow_vars, catalog_vars, cleanup_vars>>

execute_query(s) ==
    /\ script[s] = "execute_query"
    /\ script' = [script EXCEPT ![s] = "invoke"]
    /\ inflight' = inflight \ { Statement("execute", s) }
    /\ UNCHANGED <<tables, registry, workflow_vars, catalog_vars, cleanup_vars>>

\* workflow_app.invoke returns and the script run ends
invoke_returns(s) ==
    /\ script[s] = "invoke"
    /\ script' = [script EXCEPT ![s] = "idle"]
    /\ UNCHANGED <<inflight, tables, registry, workflow_vars, catalog_vars, cleanup_vars>>

\* cleanup_session called while the session's script run is still inside another call
cleanup_session_any_time(s) ==
    /\ registry[s] # {}
    /\ script' = [script EXCEPT ![s] = "drop_table"]
    /\ inflight' = inflight \cup { Statement("drop", s) }
    /\ UNCHANGED <<tables, registry, workflow_vars, catalog_vars, cleanup_vars>>

\* "Clear Upload & Cleanup", "Reset Session": cleanup_session starts drop_table
cleanup_session(s) ==
    /\ script[s] = "idle"
    /\ registry[s] # {}
    /\ script' = [script EXCEPT ![s] = "drop_table"]
    /\ inflight' = inflight \cup { Statement("drop", s) }
    /\ UNCHANGED <<tables, registry, workflow_vars, catalog_vars, cleanup_vars>>

\* DROP TABLE IF EXISTS returns or raises; then del self.sessions[session_id]
drop_table(s) ==
    /\ script[s] = "drop_table"
    /\ inflight' = inflight \ { Statement("drop", s) }
    /\ \/ tables' = tables \ registry[s]
       \/ UNCHANGED tables
    /\ registry' = [registry EXCEPT ![s] = {}]
    /\ script' = [script EXCEPT ![s] = "idle"]
    /\ UNCHANGED <<workflow_vars, catalog_vars, cleanup_vars>>

InitSessions == Init /\ intent = "query" /\ ~use_kb

NextSessions ==
    \/ \E s \in Sessions : SubmitQuestion(s)
    \/ \E s \in Sessions : load_csv_to_db(s)
    \/ \E s \in Sessions : execute_query_starts(s)
    \/ \E s \in Sessions : execute_query(s)
    \/ \E s \in Sessions : invoke_returns(s)
    \/ \E s \in Sessions : cleanup_session(s)
    \/ \E s \in Sessions : drop_table(s)

SpecSessions == InitSessions /\ [][NextSessions]_vars

(***************************************************************************)
(* SQLService.cleanup_temp_tables, which no handler of the host calls: the *)
(* sessions as above, and a caller that invokes it for a session whose     *)
(* script is idle.                                                         *)
(***************************************************************************)
\* [t for t in tables if t.startswith(f"temp_{session_id}_")]
temp_tables(session_id) ==
    { t \in tables : StartsWith(t, <<"temp", "_">> \o session_id \o <<"_">>) }

\* cleanup_temp_tables(session_id) is called
cleanup_temp_tables_starts(s) ==
    /\ script[s] = "idle"
    /\ script' = [script EXCEPT ![s] = "cleanup_temp_tables"]
    /\ UNCHANGED <<inflight, tables, registry, workflow_vars, catalog_vars, cleanup_vars>>

\* the tables it selects are dropped, or a drop raises and the except block logs it
cleanup_temp_tables(s) ==
    /\ script[s] = "cleanup_temp_tables"
    /\ \/ tables' = tables \ temp_tables(uuid4(s))
       \/ /\ temp_tables(uuid4(s)) # {}
          /\ UNCHANGED tables
    /\ script' = [script EXCEPT ![s] = "idle"]
    /\ UNCHANGED <<inflight, registry, workflow_vars, catalog_vars, cleanup_vars>>

NextTempTables ==
    \/ \E s \in Sessions : SubmitQuestion(s)
    \/ \E s \in Sessions : load_csv_to_db(s)
    \/ \E s \in Sessions : execute_query_starts(s)
    \/ \E s \in Sessions : execute_query(s)
    \/ \E s \in Sessions : invoke_returns(s)
    \/ \E s \in Sessions : cleanup_temp_tables_starts(s)
    \/ \E s \in Sessions : cleanup_temp_tables(s)

SpecTempTables == InitSessions /\ [][NextTempTables]_vars

(***************************************************************************)
(* "Save to KB": extract_metadata, add_to_kb, then load_csv_to_db with     *)
(* is_temp=False, which drops the table and creates it again.  Each call   *)
(* returns or raises; a raise ends the handler.  Sessions save their own   *)
(* upload; the uploads of two sessions can have the same file name.        *)
(***************************************************************************)
\* metadata.table_name: "kb_" + the cleaned stem of the session's uploaded file
kb_table(s) == <<"kb", "_", Hex[(s + 1) \div 2]>>

kb_frame == <<inflight, registry, workflow_vars, cleanup_vars>>

\* the button is pressed and extract_metadata returns
SaveToKB(s) ==
    /\ script[s] = "idle"
    /\ script' = [script EXCEPT ![s] = "add_to_kb"]
    /\ UNCHANGED <<tables, collection, kb_frame>>

\* collection.add returns or raises
add_to_kb(s) ==
    /\ script[s] = "add_to_kb"
    /\ \/ /\ collection' = collection \cup { kb_table(s) }
          /\ script' = [script EXCEPT ![s] = "DROP TABLE"]
       \/ /\ script' = [script EXCEPT ![s] = "idle"]
          /\ UNCHANGED collection
    /\ UNCHANGED <<tables, kb_frame>>

\* load_csv_to_db up to DROP TABLE IF EXISTS: reading the file or the statement raises,
\* or the table is dropped
load_csv_to_db_drop(s) ==
    /\ script[s] = "DROP TABLE"
    /\ \/ /\ tables' = tables \ { kb_table(s) }
          /\ script' = [script EXCEPT ![s] = "CREATE TABLE"]
       \/ /\ script' = [script EXCEPT ![s] = "idle"]
          /\ UNCHANGED tables
    /\ UNCHANGED <<collection, kb_frame>>

\* CREATE TABLE ... AS SELECT returns or raises; the handler ends
load_csv_to_db_create(s) ==
    /\ script[s] = "CREATE TABLE"
    /\ \/ /\ kb_table(s) \notin tables
          /\ tables' = tables \cup { kb_table(s) }
       \/ UNCHANGED tables
    /\ script' = [script EXCEPT ![s] = "idle"]
    /\ UNCHANGED <<collection, kb_frame>>

InitKB == Init /\ intent = "query" /\ use_kb

NextKB ==
    \/ \E s \in Sessions : SaveToKB(s)
    \/ \E s \in Sessions : add_to_kb(s)
    \/ \E s \in Sessions : load_csv_to_db_drop(s)
    \/ \E s \in Sessions : load_csv_to_db_create(s)

SpecKB == InitKB /\ [][NextKB]_vars

(***************************************************************************)
(* SessionService.cleanup_session, one step per iteration of its loops.    *)
(* The registries hold any names: register_temp_table and                  *)
(* register_temp_file add what they are given.                             *)
(***************************************************************************)
TableNames(s) == { <<"temp", s, n>> : n \in {"upload", "other"} }
FileNames(s) == { <<"file", s, n>> : n \in {"a.csv", "b.csv"} }

\* one session holds registered tables and files, some of them already gone
InitCleanup ==
    /\ WorkflowInit
    /\ intent = "query"
    /\ ~use_kb
    /\ script = [s \in Sessions |-> "idle"]
    /\ inflight = {}
    /\ cleanup = NoCleanup
    /\ collection = {}
    /\ \E s \in Sessions :
          /\ \E names \in SUBSET TableNames(s) :
                /\ registry = [x \in Sessions |-> IF x = s THEN names ELSE {}]
                /\ tables \in SUBSET names
          /\ \E paths \in SUBSET FileNames(s) :
                /\ session_files = [x \in Sessions |-> IF x = s THEN paths ELSE {}]
                /\ disk \in SUBSET paths

\* cleanup_session(session_id) is called
cleanup_session_enter(s) ==
    /\ cleanup.phase = "idle"
    /\ cleanup' = [sid |-> s, phase |-> "tables", left |-> registry[s],
                   given |-> registry[s] \cup session_files[s], tried |-> {}, failed |-> {}]
    /\ UNCHANGED <<script, inflight, tables, registry, session_files, disk, workflow_vars, catalog_vars>>

\* the loop over the tables with no try around drop_table
cleanup_session_drop_uncaught ==
    /\ cleanup.phase = "tables"
    /\ \E t \in cleanup.left :
          \/ /\ tables' = tables \ {t}
             /\ cleanup' = [cleanup EXCEPT !.left = @ \ {t}, !.tried = @ \cup {t}]
          \/ /\ UNCHANGED tables
             /\ cleanup' = [cleanup EXCEPT !.left = {}, !.tried = @ \cup {t},
                                           !.failed = @ \cup {t}, !.phase = "returned"]
    /\ UNCHANGED <<script, inflight, registry, session_files, disk, workflow_vars, catalog_vars>>

\* for table_name in self.sessions[session_id]: drop_table returns or raises
cleanup_session_drop ==
    /\ cleanup.phase = "tables"
    /\ \E t \in cleanup.left :
          \/ /\ tables' = tables \ {t}
             /\ cleanup' = [cleanup EXCEPT !.left = @ \ {t}, !.tried = @ \cup {t}]
          \/ /\ UNCHANGED tables
             /\ cleanup' = [cleanup EXCEPT !.left = @ \ {t}, !.tried = @ \cup {t},
                                           !.failed = @ \cup {t}]
    /\ UNCHANGED <<script, inflight, registry, session_files, disk, workflow_vars, catalog_vars>>

\* self.sessions.clear() in place of del self.sessions[session_id]
cleanup_session_del_tables_of_all ==
    /\ cleanup.phase = "tables"
    /\ cleanup.left = {}
    /\ registry' = [x \in Sessions |-> {}]
    /\ cleanup' = [cleanup EXCEPT !.phase = "files", !.left = session_files[cleanup.sid]]
    /\ UNCHANGED <<script, inflight, tables, session_files, disk, workflow_vars, catalog_vars>>

\* del self.sessions[session_id], or the if that skips the loop
cleanup_session_del_tables ==
    /\ cleanup.phase = "tables"
    /\ cleanup.left = {}
    /\ registry' = [registry EXCEPT ![cleanup.sid] = {}]
    /\ cleanup' = [cleanup EXCEPT !.phase = "files", !.left = session_files[cleanup.sid]]
    /\ UNCHANGED <<script, inflight, tables, session_files, disk, workflow_vars, catalog_vars>>

\* for file_path in self.session_files[session_id]: unlink returns or raises
cleanup_session_unlink ==
    /\ cleanup.phase = "files"
    /\ \E f \in cleanup.left :
          \/ /\ disk' = disk \ {f}
             /\ cleanup' = [cleanup EXCEPT !.left = @ \ {f}, !.tried = @ \cup {f}]
          \/ /\ UNCHANGED disk
             /\ cleanup' = [cleanup EXCEPT !.left = @ \ {f}, !.tried = @ \cup {f},
                                           !.failed = @ \cup {f}]
    /\ UNCHANGED <<script, inflight, tables, registry, session_files, workflow_vars, catalog_vars>>

\* del self.session_files[session_id], or the if that skips the loop; then return
cleanup_session_del_files ==
    /\ cleanup.phase = "files"
    /\ cleanup.left = {}
    /\ session_files' = [session_files EXCEPT ![cleanup.sid] = {}]
    /\ cleanup' = [cleanup EXCEPT !.phase = "returned"]
    /\ UNCHANGED <<script, inflight, tables, registry, disk, workflow_vars, catalog_vars>>

NextCleanup ==
    \/ \E s \in Sessions : cleanup_session_enter(s)
    \/ cleanup_session_drop
    \/ cleanup_session_del_tables
    \/ cleanup_session_unlink
    \/ cleanup_session_del_files

SpecCleanup == InitCleanup /\ [][NextCleanup]_vars

(***************************************************************************)
(* The registries of SessionService over the life of the process: the      *)
(* sessions register their upload and its table, and cleanup_session is    *)
(* called any number of times, one call at a time.  The script run of a    *)
(* session that is inside cleanup_session registers nothing.               *)
(***************************************************************************)
get_session_tables(s) == registry[s]
get_session_files(s) == session_files[s]

\* no call of cleanup_session for session s is in progress
NotCleaning(s) == cleanup.phase \in {"idle", "returned"} \/ cleanup.sid # s

\* the upload is saved and register_temp_file is called
register_temp_file(s) ==
    /\ NotCleaning(s)
    /\ session_files[s] = {}
    /\ \E f \in FileNames(s) :
          /\ f[3] = "a.csv"
          /\ disk' = disk \cup {f}
          /\ session_files' = [session_files EXCEPT ![s] = @ \cup {f}]
    /\ UNCHANGED <<script, inflight, tables, registry, cleanup, workflow_vars, catalog_vars>>

\* the table is loaded and register_temp_table is called
register_temp_table(s) ==
    /\ NotCleaning(s)
    /\ session_files[s] # {}
    /\ \E t \in TableNames(s) :
          /\ t[3] = "upload"
          /\ t \notin tables
          /\ tables' = tables \cup {t}
          /\ registry' = [registry EXCEPT ![s] = @ \cup {t}]
    /\ UNCHANGED <<script, inflight, session_files, disk, cleanup, workflow_vars, catalog_vars>>

\* cleanup_session(session_id) is called after an earlier call has returned; `after`
\* is the session of that call
cleanup_session_again(s) ==
    /\ cleanup.phase = "returned"
    /\ cleanup' = [sid |-> s, phase |-> "tables", left |-> registry[s],
                   given |-> registry[s] \cup session_files[s], tried |-> {}, failed |-> {},
                   after |-> cleanup.sid]
    /\ UNCHANGED <<script, inflight, tables, registry, session_files, disk, workflow_vars, catalog_vars>>

InitRegistry == Init /\ intent = "query" /\ ~use_kb

NextRegistry ==
    \/ \E s \in Sessions : register_temp_file(s)
    \/ \E s \in Sessions : register_temp_table(s)
    \/ \E s \in Sessions : cleanup_session_enter(s)
    \/ \E s \in Sessions : cleanup_session_again(s)
    \/ cleanup_session_drop
    \/ cleanup_session_del_tables
    \/ cleanup_session_unlink
    \/ cleanup_session_del_files

SpecRegistry == InitRegistry /\ [][NextRegistry]_vars

Terminated == pc = "END"
Done == Terminated /\ ~Truthy(error)
Failed == Terminated /\ Truthy(error)

(***************************************************************************)
(* Properties.                                                             *)
(***************************************************************************)
QueryCycleCalls == {"qc", "gen", "exec"}
ExternalCalls == {"search", "select", "qc", "gen", "exec", "val", "synth", "synth_llm"}

\* C1: every request terminates: under the graph's scheduling a run reaches END
\* (Done or Failed), so the cycle query -> validate -> query cannot repeat for ever.
C1_EveryRequestTerminates == <>Terminated

\* C2: once a Query Cycle invocation has failed all its attempts, in the first or
\* in a later outer iteration, no step of the request invokes the Query Cycle, the
\* generation backend for SQL or the SQL engine again.
C2_FailedQueryCycleIsFatal ==
    [][raised # None => invoked' \cap QueryCycleCalls = {}]_vars

\* C3: if the first Query Cycle invocation of a request fails all 3 attempts, the
\* Validator is never invoked, workflow_error is the error text of attempt 3, and
\* the request terminates in Failed.
C3_FirstCycleFailureEndsFailed ==
    (raised # None /\ calls["qc"] = 1) =>
        /\ calls["val"] = 0
        /\ error = raised
        /\ (Terminated => Failed)

\* C4: in every reachable state, termination included, validation_retry_count is
\* between 0 and 3.
C4_RetryCountInRange == retry_count \in 0 .. MaxValidationRetries

C4_Witness == Terminated /\ retry_count = MaxValidationRetries

\* C5: a terminated request that took the Query/Validate path made exactly
\* 1 + validation_retry_count Query Cycle invocations.
C5_CyclesAreOnePlusRetries ==
    (intent = "query" /\ Terminated /\ calls["val"] >= 1) => calls["qc"] = 1 + retry_count

\* C6: a validate step takes the retry transition exactly when the Validator's
\* outcome of that step is invalid and validation_retry_count before the step is
\* below 3, and the count changes only by the increment made on that transition.
C6_RetryExactlyWhenInvalidAndBudget ==
    [][ /\ pc = "validate" =>
              ((pc' = "query") <=>
                   ("val" \in invoked' /\ ~validation'.valid
                        /\ retry_count < MaxValidationRetries))
        /\ retry_count' # retry_count =>
              (pc = "validate" /\ pc' = "query" /\ retry_count' = retry_count + 1)
      ]_vars

\* C7: a request with intent = Summarize runs the summarization step and nothing
\* else: no Table Resolver, Query Cycle, Validator or Synthesizer call is made.
C7_SummarizeBypassesSql ==
    intent = "summarize" =>
        /\ pc \in {"START", "summarize", "END"}
        /\ \A c \in ExternalCalls : calls[c] = 0
        /\ (Terminated <=> calls["sum"] = 1)

C7_Witness == intent = "summarize" /\ Terminated /\ calls["sum"] = 1

\* C8: once workflow_error is set, no later step changes its value.
C8_ErrorNeverOverwritten == [][Truthy(error) => error' = error]_vars

\* C9: once workflow_error is set, no step invokes an external collaborator, and
\* sql_query, query_results, final_answer, validation_feedback and
\* validation_retry_count keep their values.
C9_ShortCircuitAfterError ==
    [][Truthy(error) =>
           /\ invoked' = {}
           /\ UNCHANGED <<sql_query, query_results, final_answer, validation_error,
                          retry_count>>
      ]_vars

\* C10: in catalog mode with an empty search result the resolver makes no backend
\* call, the Query Cycle makes no generation or execution call, the error stays
\* set and every further step moves the request on towards END, where it is Failed.
EmptySearch == use_kb /\ calls["search"] >= 1 /\ candidates = <<>>

StepsToEnd ==
    CASE pc = "query" -> 3 [] pc = "validate" -> 2 [] pc = "synthesize" -> 1
      [] pc = "END" -> 0 [] OTHER -> 4

C10_EmptySearchFails ==
    /\ [](EmptySearch =>
            /\ calls["select"] = 0
            /\ \A c \in QueryCycleCalls : calls[c] = 0
            /\ Truthy(error)
            /\ (Terminated => Failed)
            /\ (Terminated \/ ENABLED Next))
    /\ [][EmptySearch => (EmptySearch' /\ StepsToEnd' < StepsToEnd)]_vars

C10_Witness == EmptySearch /\ Failed /\ calls["select"] = 0

\* C11: in catalog mode, when the search returned n >= 1 candidates and none of
\* them is left after filtering by the backend's selection, the resolved schemas
\* are exactly the first min(3, n) candidates, in the order of the search.
C11_FallbackIsFirstThree ==
    (use_kb /\ candidates # <<>> /\ matched = <<>>)
        => /\ Len(table_schemas) = Min(3, Len(candidates))
           /\ \A i \in 1 .. Len(table_schemas) : table_schemas[i] = candidates[i]

C11_Witness ==
    /\ use_kb
    /\ Len(candidates) = 4
    /\ matched = <<>>
    /\ Len(table_schemas) = 3

\* C12: a Query Cycle invocation stops at its first successful execution: no
\* attempt follows it, and when attempt k is the first whose SQL executes, the
\* invocation has made exactly k generation calls and k execution calls.
C12_StopsAtFirstSuccess ==
    LET tried == trace.tried
    IN  /\ \A i \in 1 .. Len(tried) - 1 : tried[i].kind # "ok"
        /\ (tried # <<>> /\ tried[Len(tried)].kind = "ok")
               => /\ calls["gen"] = Len(tried)
                  /\ calls["exec"] = Len(tried)

\* C18: a failure of the generation backend inside an attempt of a Query Cycle
\* is fatal: the invocation ends with that attempt, the failure is stored as
\* the workflow error, and no further attempt is made.
C18_GenerationFailureIsFatal ==
    [][(pc = "query_attempt" /\ invoked' = {"gen"})
          => (pc' = "validate" /\ raised' # None /\ error' = raised')]_vars

\* C13: when a Query Cycle invocation fails at execution on attempts 1 and 2
\* and succeeds on attempt 3, the SQL and the results stored in the state, and
\* passed to the Validator, are those of attempt 3 and of no earlier attempt.
C13_ThirdAttemptIsStored ==
    LET tried == trace.tried
    IN  (/\ Len(tried) = 3
         /\ tried[1].kind = "engine raised"
         /\ tried[2].kind = "engine raised"
         /\ tried[3].kind = "ok")
            => /\ sql_query = tried[3].sql
               /\ query_results = tried[3].rows
               /\ \A i \in 1 .. Len(trace.validated) :
                      /\ trace.validated[i].sql = tried[3].sql
                      /\ trace.validated[i].rows = tried[3].rows

C13_Witness ==
    /\ Len(trace.tried) = 3
    /\ trace.tried[1].kind = "engine raised"
    /\ trace.tried[2].kind = "engine raised"
    /\ trace.tried[3].kind = "ok"
    /\ trace.tried[1].sql # trace.tried[3].sql
    /\ trace.tried[2].sql # trace.tried[3].sql
    /\ trace.validated # <<>>

\* C14: whenever the backend call of the Validator fails, validate returns
\* is_valid = true with the reason "Validation Error" and raises nothing.
C14_ValidatorFailsOpen ==
    \A i \in 1 .. Len(trace.validated) :
        trace.validated[i].backend = "raised"
            => /\ ~validation.exc
               /\ validation.valid
               /\ validation.reason = <<"Validation Error">>

C14_Witness ==
    /\ trace.validated # <<>>
    /\ trace.validated[1].backend = "raised"
    /\ validation.valid
    /\ validation_error = None

\* the answers the Synthesizer can write from the pair an attempt returned
AnswersFrom(r) ==
    IF r.rows = <<>>
    THEN { NoResultsAnswer }
    ELSE { BackendAnswer(r.sql, r.rows), FallbackAnswer(r.rows) }

\* the last Query Cycle invocation returned, and the answer is written from its pair
AnswerIsFromLastCycle ==
    /\ trace.tried # <<>>
    /\ trace.tried[Len(trace.tried)].kind = "ok"
    /\ final_answer \in AnswersFrom(trace.tried[Len(trace.tried)])

\* C15: when the Validator says invalid on its first two invocations and valid
\* on the third, and every Query Cycle invocation succeeds, the Query Cycle is
\* invoked exactly 3 times and the final answer is synthesized from the SQL and
\* the results of the third invocation.
C15_ValidOnThirdValidation ==
    (/\ calls["val"] = 3
     /\ retry_count = 2
     /\ validation.valid
     /\ raised = None)
        => /\ calls["qc"] = 3
           /\ pc \in {"synthesize", "END"}
           /\ Terminated => (Done /\ AnswerIsFromLastCycle)

C15_Witness ==
    /\ calls["val"] = 3
    /\ retry_count = 2
    /\ validation.valid
    /\ raised = None
    /\ Terminated
    /\ final_answer.src = "backend"

\* C16: when the retry budget is exhausted while the Validator still says
\* invalid and every Query Cycle invocation succeeded, the workflow takes the
\* end transition and terminates Done, with the final answer synthesized from
\* the results of the last Query Cycle and no workflow error.
C16_ExhaustedBudgetEndsDone ==
    (/\ retry_count = 3
     /\ ~validation.valid
     /\ raised = None)
        => /\ pc \in {"synthesize", "END"}
           /\ ~Truthy(error)
           /\ Terminated => (Done /\ AnswerIsFromLastCycle)

C16_Witness ==
    /\ retry_count = 3
    /\ ~validation.valid
    /\ raised = None
    /\ Terminated
    /\ final_answer.src = "backend"

\* C17: at termination a populated workflow error means the final answer is
\* empty, and an empty workflow error means the final answer was written by the
\* summarization or by the Synthesizer.
C17_ErrorXorAnswer ==
    Terminated =>
        /\ Truthy(error) => final_answer = NoAnswer
        /\ ~Truthy(error) => final_answer.src \in {"summary", "no results", "backend", "fallback"}

\* a text as an error context: an empty text, like no text, adds nothing to the prompt
AsContext(text) == IF text = EmptyText THEN None ELSE text

\* C19: inside a Query Cycle invocation the error context of attempt 1 is the
\* external validation feedback (or none), and the error context of attempts 2
\* and 3 is the error text of the failed attempt just before, whatever that
\* text is: the external feedback is not used again once an attempt has failed.
C19_InternalFeedbackSupersedes ==
    [][Len(trace'.tried) = Len(trace.tried) + 1
          => trace'.context = AsContext(IF trace.tried = <<>> THEN validation_error
                                                              ELSE last_error)]_vars

LifecycleOps == {"create", "drop"}

C21_CleanupIsBestEffort ==
    /\ cleanup.phase # "raised"
    /\ cleanup.phase = "returned"
          => /\ cleanup.tried = cleanup.given
             /\ registry[cleanup.sid] = {}
             /\ session_files[cleanup.sid] = {}

C21_Witness ==
    /\ cleanup.phase = "returned"
    /\ Cardinality(cleanup.given) = 4
    /\ \E t \in cleanup.failed : t[1] = "temp"
    /\ \E f \in cleanup.failed : f[1] = "file"
    /\ cleanup.tried = cleanup.given

\* C22: when the backend call of the Synthesizer fails on non-empty results,
\* synthesis returns the fallback text built from the first 5 result rows, and
\* the request terminates in Done with that text as final answer and no
\* workflow error.
C22_SynthesisFailureIsNotFatal ==
    final_answer.src = "fallback"
        => /\ query_results # <<>>
           /\ Len(final_answer.rows) = Min(5, Len(query_results))
           /\ \A i \in 1 .. Len(final_answer.rows) : final_answer.rows[i] = query_results[i]
           /\ Done

C22_Witness ==
    /\ final_answer.src = "fallback"
    /\ Len(query_results) > 5
    /\ Len(final_answer.rows) = 5
    /\ Done

\* C23: when the query results are empty, the Synthesizer returns the fixed
\* no-results message and makes no call of the generation backend.
C23_EmptyResultsNeedNoBackend ==
    [][(pc = "synthesize" /\ ~Truthy(error) /\ query_results = <<>>)
          => /\ final_answer' = NoResultsAnswer
             /\ "synth" \in invoked'
             /\ "synth_llm" \notin invoked'
             /\ calls'["synth_llm"] = calls["synth_llm"]]_vars

C23_Witness ==
    /\ Terminated
    /\ query_results = <<>>
    /\ final_answer.src = "no results"
    /\ calls["synth"] = 1
    /\ calls["synth_llm"] = 0
    /\ calls["exec"] > 0

\* the only Validator invocation so far said valid, and no Query Cycle has failed
FirstVerdictValid == calls["val"] = 1 /\ validation.valid /\ raised = None

\* C24: when the first Query Cycle invocation succeeds and the first outcome of
\* the Validator is valid, the engine reaches Done with validation_retry_count
\* = 0 after exactly one Query Cycle invocation and one Validator invocation.
C24_ValidAtOnce ==
    /\ [](FirstVerdictValid =>
            /\ retry_count = 0
            /\ calls["qc"] = 1
            /\ pc \in {"synthesize", "END"}
            /\ (Terminated => Done)
            /\ (Terminated \/ ENABLED Next))
    /\ [][FirstVerdictValid => (FirstVerdictValid' /\ pc' = "END")]_vars

C24_Witness == FirstVerdictValid /\ Done /\ final_answer.src = "backend" /\ use_kb

\* the trimmed text begins, whatever the case of its letters, with VALID
BeginsWithValid(text) == StartsWith(Upper(Strip(text)), <<"V", "A", "L", "I", "D">>)

\* the text following the first "-" of the response, the whole text when it has none
AfterFirstDash(text) ==
    IF FirstIndex(text, "-") > 0
    THEN SubSeq(text, FirstIndex(text, "-") + 1, Len(text))
    ELSE text

\* C25, as stated: for every response text of the Validator the outcome is
\* valid, with an empty reason, exactly when the trimmed text begins with VALID
\* in any case; otherwise it is invalid and the reason is the text following
\* the first "-" of the response, or the whole text when it has no "-".
C25_ParsingRule ==
    \A i \in 1 .. Len(trace.validated) :
        LET text == trace.validated[i].text
        IN  trace.validated[i].backend = "text"
                => /\ validation.valid = BeginsWithValid(text)
                   /\ validation.reason =
                          IF BeginsWithValid(text) THEN EmptyText ELSE AfterFirstDash(text)

\* C25, amended: the reason of an invalid outcome is that text with the white
\* space around it removed.
C25_ParsingRuleTrimmed ==
    \A i \in 1 .. Len(trace.validated) :
        LET text == trace.validated[i].text
        IN  trace.validated[i].backend = "text"
                => /\ validation.valid = BeginsWithValid(text)
                   /\ validation.reason =
                          IF BeginsWithValid(text) THEN EmptyText
                                                   ELSE Strip(AfterFirstDash(text))

C25_Witness ==
    /\ trace.validated # <<>>
    /\ trace.validated[1].backend = "text"
    /\ trace.validated[1].text = <<"I", "N", "V", "A", "L", "I", "D", " ", "-", " ", "a", "-", "b">>
    /\ validation.reason = <<"a", "-", "b">>

\* the request of direct-mode session s is running: workflow_app.invoke has been entered
\* and has not returned
RequestRunning(s) == script[s] \in {"invoke", "execute_query"}

\* C26: while the direct-mode request of a session runs, the table name the workflow
\* resolves is the session identifier with every hyphen replaced by an underscore
\* between the fixed prefix and suffix, it is the name the host registered for the
\* session before invoking the workflow, and a table of that name exists.
C26_ResolvedTableExists ==
    \A s \in Sessions :
        RequestRunning(s)
            => LET name == resolved_table(uuid4(s))
                   n    == Len(uuid4(s))
               IN  /\ Len(name) = n + 4
                   /\ <<name[1], name[2], name[n + 3], name[n + 4]>> = <<"temp", "_", "_", "upload">>
                   /\ \A i \in 1 .. n :
                         name[i + 2] = (IF uuid4(s)[i] = "-" THEN "_" ELSE uuid4(s)[i])
                   /\ name \in registry[s]
                   /\ name \in tables

\* a request is executing its query while a second session's request runs too and a
\* third session's cleanup is dropping that session's table
C26_Witness ==
    \E s, r, q \in Sessions :
        /\ script[s] = "execute_query"
        /\ r # s /\ q # s /\ q # r
        /\ script[r] = "invoke"
        /\ script[q] = "drop_table"
        /\ Cardinality(tables) = 3

\* the step is an invocation of the Validator in which its backend fails
ValidatorMalfunctions ==
    /\ pc = "validate"
    /\ "val" \in invoked'
    /\ trace'.validated[1].backend = "raised"

\* C27: a step in which the Validator's backend fails leads to synthesize and leaves
\* the SQL, the results, retry_count, error and the number of Query Cycle invocations
\* as they were; and once the last invocation of the Validator was such a failure,
\* the request is at synthesize or at its end, so no Query Cycle follows.
C27_MalfunctionNeverBlocks ==
    /\ [][ValidatorMalfunctions
            => /\ pc' = "synthesize"
               /\ sql_query' = sql_query
               /\ query_results' = query_results
               /\ retry_count' = retry_count
               /\ validation_error' = None
               /\ error' = error
               /\ calls'["qc"] = calls["qc"]]_vars
    /\ []((trace.validated # <<>> /\ trace.validated[1].backend = "raised")
            => pc \in {"synthesize", "END"})

\* the backend fails in the third invocation of the Validator, after two retries, and
\* the request ends with an answer
C27_Witness ==
    /\ trace.validated # <<>>
    /\ trace.validated[1].backend = "raised"
    /\ calls["val"] = 3
    /\ retry_count = 2
    /\ Done

\* the step takes the edge validate -> query
RetryTransition == pc = "validate" /\ pc' = "query"

\* C28: a step that takes the retry edge is one in which the Validator was invoked
\* and judged the results invalid, and it stores that outcome's reason in
\* validation_error; the Query Cycle invocation that follows takes the stored text
\* as its error_context.
C28_RetryCarriesFreshFeedback ==
    /\ [][RetryTransition
            => /\ "val" \in invoked'
               /\ ~validation'.valid
               /\ validation_error' = validation'.reason]_vars
    /\ [][(pc = "query" /\ "qc" \in invoked') => error_context' = validation_error]_vars

\* C29: a step in which the Validator returns a valid outcome leaves validation_error
\* None, whatever it held before; and a request that has ended in Done with a valid
\* outcome as the Validator's last holds None in validation_error.
C29_ValidVerdictClearsFeedback ==
    /\ [][("val" \in invoked' /\ validation'.valid) => validation_error' = None]_vars
    /\ []((Done /\ calls["val"] > 0 /\ validation.valid) => validation_error = None)

\* the first verdict was invalid and stored its reason, the second was valid, and the
\* request has ended with an answer
C29_Witness ==
    /\ Done
    /\ calls["val"] = 2
    /\ retry_count = 1
    /\ validation.valid
    /\ validation_error = None

\* the last attempt of the Query Cycle invocation before this step returned, and the
\* state holds the SQL and the rows it returned
AfterSuccessfulCycle ==
    /\ trace.tried # <<>>
    /\ LET last == trace.tried[Len(trace.tried)]
       IN  /\ last.kind = "ok"
           /\ sql_query = last.sql
           /\ query_results = last.rows

\* C30: a step that invokes the Validator follows a Query Cycle invocation that
\* succeeded and judges that invocation's SQL and results; a step that invokes the
\* Synthesizer is the first to do so, follows an invocation of the Validator and works
\* on the SQL and results that invocation judged.
C30_StateMachineOrder ==
    /\ [][("val" \in invoked') => AfterSuccessfulCycle]_vars
    /\ [][("synth" \in invoked')
            => /\ calls["synth"] = 0
               /\ calls["val"] >= 1
               /\ trace.validated # <<>>
               /\ trace.validated[1].sql = sql_query
               /\ trace.validated[1].rows = query_results]_vars

\* the set of elements of a sequence
Range(s) == { s[i] : i \in 1 .. Len(s) }

\* the catalog-mode resolution has returned without raising
ResolutionSucceeded ==
    /\ use_kb
    /\ pc = "query"
    /\ candidates # <<>>
    /\ trace.kind = "text"

\* C31: when a catalog-mode resolution succeeds, the resolved schemas are not empty,
\* every resolved table is one of the search candidates, and when some candidate is
\* among the names the backend returned then every such candidate is resolved.
C31_ResolvedAreCandidates ==
    ResolutionSucceeded
        => /\ table_schemas # <<>>
           /\ Range(table_schemas) \subseteq Range(candidates)
           /\ Range(candidates) \cap trace.selected # {}
                 => Range(candidates) \cap trace.selected \subseteq Range(table_schemas)

\* the backend returned two of four candidates and a name that is no candidate
C31_Witness ==
    /\ ResolutionSucceeded
    /\ Len(candidates) = 4
    /\ trace.selected = {2, 4, ForeignTable}
    /\ table_schemas = <<2, 4>>

\* C32: a step that changes retry_count is a validate step in which the Validator
\* was invoked and judged the results invalid, and it adds exactly 1; so no other
\* step changes the count and it never decreases.
C32_OnlyValidationCounts ==
    [][retry_count' # retry_count
          => /\ pc = "validate"
             /\ "val" \in invoked'
             /\ ~validation'.valid
             /\ retry_count' = retry_count + 1]_vars

\* two invalid verdicts were counted, and the count has passed through two more Query
\* Cycle invocations and the Synthesizer
C32_Witness ==
    /\ retry_count = 2
    /\ calls["qc"] = 3
    /\ calls["synth"] = 1
    /\ pc = "END"

\* C33: a validate step in which the Validator judges the results invalid takes the
\* retry edge whenever the count it leaves is below 3, which is when it takes it for
\* a reason that is not empty; the reason text, the empty text included, plays no part.
C33_RetryWhateverTheReason ==
    [][(pc = "validate" /\ "val" \in invoked' /\ ~validation'.valid
            /\ retry_count' < MaxValidationRetries)
          => pc' = "query"]_vars

\* C34: as long as no Query Cycle invocation of the request has failed, the Query
\* Cycle has been invoked at most 3 times, the Validator at most 3 times, and at most
\* 9 SQL-generation calls have been made.
C34_AtMostNineGenerations ==
    raised = None
        => /\ calls["qc"] <= 3
           /\ calls["val"] <= 3
           /\ generated <= 9

\* three Query Cycle invocations succeeded on their third attempt each, three verdicts
\* were invalid, and the request is at synthesize
C34_Witness ==
    /\ raised = None
    /\ pc = "synthesize"
    /\ calls["qc"] = 3
    /\ calls["val"] = 3
    /\ generated = 9

\* C35: whenever a session's "Submit Question" has issued its CREATE TEMP TABLE, no
\* table of that name exists, so the load can succeed and the workflow be started,
\* however many questions the session has submitted before.
C35_QuestionsCanBeRepeated ==
    \A s \in Sessions :
        script[s] = "load_csv_to_db" => created_table(temp_table(uuid4(s))) \notin tables

\* the step belongs to a call of cleanup_session
CleanupStep == cleanup' # cleanup

\* the last call of cleanup_session directly followed a call for the same session
\* that had returned, with nothing registered for the session in between
SecondCleanup ==
    /\ "after" \in DOMAIN cleanup
    /\ cleanup.after = cleanup.sid
    /\ cleanup.given = {}

\* C36: the step in which cleanup_session(s) returns leaves get_session_tables(s) and
\* get_session_files(s) empty; no step of a call for s changes what another session
\* has registered; and no step of a second call for s changes the registries, the
\* tables or the files.
C36_CleanupEmptiesOnlyItsSession ==
    /\ [][(CleanupStep /\ cleanup'.phase = "returned")
            => /\ registry'[cleanup'.sid] = {}
               /\ session_files'[cleanup'.sid] = {}]_vars
    /\ [][CleanupStep
            => \A x \in Sessions \ {cleanup'.sid} :
                  /\ get_session_tables(x)' = get_session_tables(x)
                  /\ get_session_files(x)' = get_session_files(x)]_vars
    /\ [][(CleanupStep /\ SecondCleanup')
            => UNCHANGED <<registry, session_files, tables, disk>>]_vars

\* a second call for a session has returned while another session has a table and a
\* file registered
C36_Witness ==
    /\ cleanup.phase = "returned"
    /\ SecondCleanup
    /\ \E x \in Sessions \ {cleanup.sid} :
          get_session_tables(x) # {} /\ get_session_files(x) # {}

\* C37: when cleanup_temp_tables returns for a session, the table loaded under the
\* name the host derives from the session's identifier is gone, or it was among the
\* tables the call selected for dropping.
C37_TempTablesAreDropped ==
    [][\A s \in Sessions :
          (script[s] = "cleanup_temp_tables" /\ script'[s] = "idle")
              => \/ created_table(temp_table(uuid4(s))) \notin tables'
                 \/ created_table(temp_table(uuid4(s))) \in temp_tables(uuid4(s))]_vars

\* C38: whenever no "Save to KB" is in progress, every table name in the Schema Store
\* names a table that exists in the Relational Engine.
C38_StoredSchemasHaveTables ==
    (\A s \in Sessions : script[s] = "idle") => collection \subseteq tables

====
